---- MODULE Spec2Model ----
(***************************************************************************)
(* Model of the stepper driver MotorControl of lumisync-embedded           *)
(* (src/lumisync-embedded/motor/MotorControl.{h,cpp}).                     *)
(*                                                                         *)
(* The driver object and the four pins it drives are one record, drv.     *)
(* Every member function is an operator from a driver record to the set   *)
(* of driver records the call can produce, so that a function calling      *)
(* another one (update -> stepMotor, moveTo -> activateMotor, ...) is the  *)
(* composition of the operators.  The fields named h_* are history         *)
(* fields: they record what a call did (how many stepMotor() calls, which  *)
(* table row, whether a pin was written) and are never read by the code.   *)
(*                                                                         *)
(* The older driver src/lumisync-embedded/MotorControl.cpp has the same    *)
(* activateMotor(), deactivateMotor() and stepMotor(), statement for       *)
(* statement; the operators of these names model both.                     *)
(*                                                                         *)
(* moveToSync() blocks its caller: while pc = "sync" only its own loop     *)
(* runs, one iteration an action, and no other member function is called   *)
(* except by the step observer.                                            *)
(***************************************************************************)
EXTENDS Integers, Sequences, FiniteSets, TLC

(***************************************************************************)
(* Bounds of the model.                                                    *)
(***************************************************************************)
\* millis() and m_lastStepTime are unsigned long: their arithmetic wraps.
\* The model keeps the wrap-around on a clock of ClockMod values.
ClockMod == 3
\* Direct stepMotor() and setCurrentStep() calls are explored for positions
\* from the lower of minStep and 0 up to MaxPos, which lies beyond maxStep.
MaxPos == 3
\* Requested targets are drawn from -MaxTarget .. MaxTarget.
MaxTarget == 3

\* (minStep, maxStep) pairs the driver is constructed with.
Limits == { <<-1, 2>>, <<1, 2>> }

(***************************************************************************)
(* Program constants.                                                      *)
(***************************************************************************)
LOW == 0
HIGH == 1
stepCount == 4
stepDelay == 2

Pins == 1..4

fullSteps ==
  << << HIGH, HIGH, LOW,  LOW  >>,
     << LOW,  HIGH, HIGH, LOW  >>,
     << LOW,  LOW,  HIGH, HIGH >>,
     << HIGH, LOW,  LOW,  HIGH >> >>

AllLow == [i \in Pins |-> LOW]
AllMode(md) == [i \in Pins |-> md]

\* The C++ operator % on int: the remainder has the sign of the dividend.
CRem(a, n) == IF a >= 0 THEN a % n ELSE -((-a) % n)

\* The Arduino macro constrain(amt, low, high).
constrain(amt, low, high) ==
  IF amt < low THEN low ELSE IF amt > high THEN high ELSE amt

\* unsigned long subtraction currentTime - m_lastStepTime.
elapsedSince(currentTime, lastStepTime) == (currentTime - lastStepTime) % ClockMod

VARIABLES
  drv,              \* the MotorControl object and its four pins
  now,              \* the value millis() returns
  pc,               \* "idle", or "sync" while moveToSync() is in its loop
  m_stepCallback,   \* "nullptr", "record" (a passive observer) or "cancel"
  cbLog,            \* arguments of the observer calls of the moveToSync() call
  syncStart,        \* m_currentStep when the moveToSync() call began
  syncSteps,        \* stepMotor() calls made by the moveToSync() call so far
  op,               \* the member function that ran last
  req,              \* the argument, when the last call was moveTo()/moveToSync()
  sinceUpdateStep   \* clock time since the last step emitted by update(),
                    \* saturated at stepDelay; -1 before the first one

vars == << drv, now, pc, m_stepCallback, cbLog, syncStart, syncSteps, op, req,
           sinceUpdateStep >>

(***************************************************************************)
(* Member functions.                                                       *)
(***************************************************************************)
\* activateMotor() without the assignment of m_clockwise.
activateMotorKeepsDirection(s, directionClockwise) ==
  [s EXCEPT !.mode = AllMode("OUTPUT"),
            !.level = AllLow,
            !.h_wrote = TRUE,
            !.m_motorActive = TRUE,
            !.m_lastPosition = s.m_currentStep,
            !.h_stepsSinceAct = 0]

\* activateMotor() without the digitalWrite(LOW) of its loop.
activateMotorNoWrite(s, directionClockwise) ==
  [s EXCEPT !.mode = AllMode("OUTPUT"),
            !.m_clockwise = directionClockwise,
            !.m_motorActive = TRUE,
            !.m_lastPosition = s.m_currentStep,
            !.h_stepsSinceAct = 0]

activateMotor(s, directionClockwise) ==
  [s EXCEPT !.mode = AllMode("OUTPUT"),
            !.level = AllLow,
            !.h_wrote = TRUE,
            !.m_clockwise = directionClockwise,
            !.m_motorActive = TRUE,
            !.m_lastPosition = s.m_currentStep,
            !.h_stepsSinceAct = 0]

\* deactivateMotor() with its snapshot assignment turned round: the position
\* is set back to the snapshot.
deactivateMotorRestoresPosition(s) ==
  [s EXCEPT !.mode = AllMode("INPUT"),
            !.m_motorActive = FALSE,
            !.m_currentStep = s.m_lastPosition]

\* deactivateMotor() without the pinMode(INPUT) of its loop.
deactivateMotorKeepsPins(s) ==
  [s EXCEPT !.m_motorActive = FALSE,
            !.m_lastPosition = s.m_currentStep]

deactivateMotor(s) ==
  [s EXCEPT !.mode = AllMode("INPUT"),
            !.m_motorActive = FALSE,
            !.m_lastPosition = s.m_currentStep]

stepIndex(clockwise, currentStep) ==
  IF clockwise THEN CRem(currentStep, stepCount)
               ELSE (stepCount - 1) - CRem(currentStep, stepCount)

\* fullSteps[stepIndex]: the row read from the table.  An index outside the
\* table reads whatever lies next to it in memory: any four levels.
tableRead(idx) ==
  IF idx \in 0..(stepCount - 1) THEN { fullSteps[idx + 1] }
                                ELSE [Pins -> {LOW, HIGH}]

stepDelta(clockwise) == IF clockwise THEN 1 ELSE -1

\* stepMotor() that also keeps m_lastPosition at the new position.
stepMotorTracksPosition(s) ==
  LET idx == stepIndex(s.m_clockwise, s.m_currentStep)
  IN  { [s EXCEPT !.level = lv,
                  !.h_wrote = TRUE,
                  !.m_currentStep = @ + stepDelta(s.m_clockwise),
                  !.m_lastPosition = s.m_currentStep + stepDelta(s.m_clockwise),
                  !.h_steps = @ + 1,
                  !.h_row = idx,
                  !.h_rowCw = s.m_clockwise,
                  !.h_stepsSinceAct = 1] : lv \in tableRead(idx) }

\* stepMotor() holding the position at the bounds.
stepMotorBounded(s) ==
  LET idx == stepIndex(s.m_clockwise, s.m_currentStep)
  IN  { [s EXCEPT !.level = lv,
                  !.h_wrote = TRUE,
                  !.m_currentStep =
                     constrain(@ + stepDelta(s.m_clockwise), s.m_minStep, s.m_maxStep),
                  !.h_steps = @ + 1,
                  !.h_row = idx,
                  !.h_rowCw = s.m_clockwise,
                  !.h_stepsSinceAct = 1] : lv \in tableRead(idx) }

stepMotor(s) ==
  LET idx == stepIndex(s.m_clockwise, s.m_currentStep)
  IN  { [s EXCEPT !.level = lv,
                  !.h_wrote = TRUE,
                  !.m_currentStep = @ + stepDelta(s.m_clockwise),
                  !.h_steps = @ + 1,
                  !.h_row = idx,
                  !.h_rowCw = s.m_clockwise,
                  !.h_stepsSinceAct = 1] : lv \in tableRead(idx) }

\* The arrival test of update() with strict comparisons.
targetPassedStrict(s) ==
  \/ s.m_clockwise /\ s.m_currentStep > s.m_targetStep
  \/ ~s.m_clockwise /\ s.m_currentStep < s.m_targetStep

targetPassed(s) ==
  \/ s.m_clockwise /\ s.m_currentStep >= s.m_targetStep
  \/ ~s.m_clockwise /\ s.m_currentStep <= s.m_targetStep

\* update() without the test of m_motorActive.
updateWhenIdle(s, currentTime) ==
  IF targetPassed(s)
  THEN { deactivateMotor(s) }
  ELSE IF elapsedSince(currentTime, s.m_lastStepTime) >= stepDelay
       THEN { [t EXCEPT !.m_lastStepTime = currentTime] : t \in stepMotor(s) }
       ELSE { s }

\* update() without the test of the time elapsed since the last step.
updateUnpaced(s, currentTime) ==
  IF s.m_motorActive
  THEN IF targetPassed(s)
       THEN { deactivateMotor(s) }
       ELSE { [t EXCEPT !.m_lastStepTime = currentTime] : t \in stepMotor(s) }
  ELSE { s }

update(s, currentTime) ==
  IF s.m_motorActive
  THEN IF targetPassed(s)
       THEN { deactivateMotor(s) }
       ELSE IF elapsedSince(currentTime, s.m_lastStepTime) >= stepDelay
            THEN { [t EXCEPT !.m_lastStepTime = currentTime] : t \in stepMotor(s) }
            ELSE { s }
  ELSE { s }

\* The target stored as requested, without constrain().
setTargetUnclamped(s, targetStep) ==
  [s EXCEPT !.m_targetStep = targetStep]

setTarget(s, targetStep) ==
  [s EXCEPT !.m_targetStep = constrain(targetStep, s.m_minStep, s.m_maxStep)]

\* moveTo() that activates in the direction the driver already has.
moveToKeepsDirection(s, targetStep) ==
  LET s1 == setTarget(s, targetStep)
  IN  IF s1.m_currentStep # s1.m_targetStep
      THEN activateMotor(s1, s1.m_clockwise)
      ELSE s1

\* moveTo() without the test currentStep != targetStep.
moveToAlwaysActivates(s, targetStep) ==
  LET s1 == setTarget(s, targetStep)
  IN  activateMotor(s1, s1.m_targetStep > s1.m_currentStep)

\* moveTo() with the direction test the wrong way round.
moveToReversed(s, targetStep) ==
  LET s1 == setTarget(s, targetStep)
  IN  IF s1.m_currentStep # s1.m_targetStep
      THEN activateMotor(s1, s1.m_targetStep < s1.m_currentStep)
      ELSE s1

moveTo(s, targetStep) ==
  LET s1 == setTarget(s, targetStep)
  IN  IF s1.m_currentStep # s1.m_targetStep
      THEN activateMotor(s1, s1.m_targetStep > s1.m_currentStep)
      ELSE s1

\* The loop condition of moveToSync() without the test of m_motorActive.
syncContinuesWhenIdle(s) == s.m_currentStep # s.m_targetStep

\* The loop condition of moveToSync() written for upward moves only.
syncContinuesUpward(s) == s.m_motorActive /\ s.m_currentStep < s.m_targetStep

\* The loop condition of moveToSync().
syncContinues(s) == s.m_motorActive /\ s.m_currentStep # s.m_targetStep

\* m_stepCallback(m_currentStep): a passive observer only takes the
\* position; a cancelling one may call deactivateMotor() on the driver.
stepCallback(s, cb) ==
  LET t == [s EXCEPT !.h_cbCalls = @ + 1, !.h_cbArg = s.m_currentStep]
  IN  IF cb = "cancel" THEN { t, deactivateMotor(t) } ELSE { t }

\* The loop body with the observer called before the step instead of after.
syncIterateCallbackFirst(s, cb) ==
  UNION { stepMotor(t) : t \in (IF cb # "nullptr" THEN stepCallback(s, cb) ELSE { s }) }

\* The body of the loop of moveToSync().
syncIterate(s, cb) ==
  UNION { IF cb # "nullptr" THEN stepCallback(t, cb) ELSE { t } : t \in stepMotor(s) }

(***************************************************************************)
(* Initial state: the object as constructed, the pins released.            *)
(***************************************************************************)
Init ==
  /\ \E lim \in Limits :
       drv = [ m_minStep |-> lim[1], m_maxStep |-> lim[2],
               m_targetStep |-> 0, m_currentStep |-> 0,
               m_lastStepTime |-> 0, m_lastPosition |-> 0,
               m_clockwise |-> TRUE, m_motorActive |-> FALSE,
               mode |-> AllMode("INPUT"), level |-> AllLow,
               h_steps |-> 0, h_wrote |-> FALSE,
               h_row |-> 0, h_rowCw |-> TRUE,
               h_cbCalls |-> 0, h_cbArg |-> 0,
               h_wasActive |-> FALSE, h_argDir |-> TRUE,
               h_stepsSinceAct |-> 0 ]
  /\ now = 0
  /\ pc = "idle"
  /\ m_stepCallback = "nullptr"
  /\ cbLog = << >>
  /\ syncStart = 0
  /\ syncSteps = 0
  /\ op = "init"
  /\ req = 0
  /\ sinceUpdateStep = -1

\* The driver as a call finds it: nothing done yet by this call, and
\* whether the motor was active when the call began.
Begin(s) == [s EXCEPT !.h_steps = 0, !.h_wrote = FALSE,
                       !.h_row = 0, !.h_rowCw = TRUE,
                       !.h_cbCalls = 0, !.h_cbArg = 0,
                       !.h_wasActive = s.m_motorActive, !.h_argDir = TRUE]

\* Clock time d later, as sinceUpdateStep counts it.
Later(g, d) == IF g = -1 THEN -1 ELSE IF g + d >= stepDelay THEN stepDelay ELSE g + d

Targets == (-MaxTarget)..MaxTarget
Positions(s) == (IF s.m_minStep < 0 THEN s.m_minStep ELSE 0)..MaxPos

\* What every call outside moveToSync() leaves of the last moveToSync().
NoSync == /\ pc' = "idle"
          /\ cbLog' = << >>
          /\ syncStart' = 0
          /\ syncSteps' = 0

(***************************************************************************)
(* Operations.                                                             *)
(***************************************************************************)
\* update(), called when millis() is d later than at the previous call.
Update(d) ==
  /\ pc = "idle"
  /\ now' = (now + d) % ClockMod
  /\ \E s \in update(Begin(drv), (now + d) % ClockMod) : drv' = s
  /\ sinceUpdateStep' = IF drv'.h_steps > 0 THEN 0 ELSE Later(sinceUpdateStep, d)
  /\ op' = "update"
  /\ NoSync
  /\ req' = 0
  /\ UNCHANGED m_stepCallback

ActivateMotor(dir) ==
  /\ pc = "idle"
  /\ drv' = activateMotor([Begin(drv) EXCEPT !.h_argDir = dir], dir)
  /\ op' = "activateMotor"
  /\ NoSync
  /\ req' = 0
  /\ UNCHANGED << now, m_stepCallback, sinceUpdateStep >>

DeactivateMotor ==
  /\ pc = "idle"
  /\ drv' = deactivateMotor(Begin(drv))
  /\ op' = "deactivateMotor"
  /\ NoSync
  /\ req' = 0
  /\ UNCHANGED << now, m_stepCallback, sinceUpdateStep >>

StepMotor ==
  /\ pc = "idle"
  /\ drv.m_currentStep + stepDelta(drv.m_clockwise) \in Positions(drv)
  /\ \E s \in stepMotor(Begin(drv)) : drv' = s
  /\ op' = "stepMotor"
  /\ NoSync
  /\ req' = 0
  /\ UNCHANGED << now, m_stepCallback, sinceUpdateStep >>

MoveTo(t) ==
  /\ pc = "idle"
  /\ drv' = moveTo(Begin(drv), t)
  /\ op' = "moveTo"
  /\ req' = t
  /\ NoSync
  /\ UNCHANGED << now, m_stepCallback, sinceUpdateStep >>

\* setCurrentStep(c), called on the freshly constructed driver to restore a
\* saved position.
SetCurrentStep(c) ==
  /\ pc = "idle"
  /\ op = "init"
  /\ drv' = [Begin(drv) EXCEPT !.m_currentStep = c]
  /\ op' = "setCurrentStep"
  /\ NoSync
  /\ req' = 0
  /\ UNCHANGED << now, m_stepCallback, sinceUpdateStep >>

SetStepCallback(cb) ==
  /\ pc = "idle"
  /\ m_stepCallback' = cb
  /\ drv' = Begin(drv)
  /\ op' = "setStepCallback"
  /\ NoSync
  /\ req' = 0
  /\ UNCHANGED << now, sinceUpdateStep >>

\* moveToSync(t) up to its loop: the early return, or the activation.
MoveToSyncCall(t) ==
  /\ pc = "idle"
  /\ LET s1 == setTarget(Begin(drv), t)
     IN  IF s1.m_currentStep = s1.m_targetStep
         THEN drv' = s1 /\ pc' = "idle"
         ELSE drv' = activateMotor(s1, s1.m_targetStep > s1.m_currentStep)
              /\ pc' = "sync"
  /\ op' = "moveToSync"
  /\ req' = t
  /\ cbLog' = << >>
  /\ syncStart' = drv.m_currentStep
  /\ syncSteps' = 0
  /\ UNCHANGED << now, m_stepCallback, sinceUpdateStep >>

\* One iteration of the loop: stepMotor(), delay(stepDelay), the observer.
MoveToSyncIterate ==
  /\ pc = "sync"
  /\ syncContinues(drv)
  /\ \E s \in syncIterate(Begin(drv), m_stepCallback) :
       /\ drv' = s
       /\ cbLog' = IF s.h_cbCalls > 0 THEN Append(cbLog, s.h_cbArg) ELSE cbLog
  /\ syncSteps' = syncSteps + 1
  /\ now' = (now + stepDelay) % ClockMod
  /\ sinceUpdateStep' = Later(sinceUpdateStep, stepDelay)
  /\ UNCHANGED << pc, m_stepCallback, syncStart, op, req >>

\* The loop is left: deactivateMotor() and return.
MoveToSyncReturn ==
  /\ pc = "sync"
  /\ ~syncContinues(drv)
  /\ drv' = deactivateMotor(Begin(drv))
  /\ pc' = "idle"
  /\ UNCHANGED << now, m_stepCallback, cbLog, syncStart, syncSteps, op, req,
                  sinceUpdateStep >>

Next ==
  \/ \E d \in 0..(ClockMod - 1) : Update(d)
  \/ \E dir \in BOOLEAN : ActivateMotor(dir)
  \/ DeactivateMotor
  \/ StepMotor
  \/ \E t \in Targets : MoveTo(t)
  \/ \E c \in Positions(drv) : SetCurrentStep(c)
  \/ \E cb \in {"nullptr", "record", "cancel"} : SetStepCallback(cb)
  \/ \E t \in Targets : MoveToSyncCall(t)
  \/ MoveToSyncIterate
  \/ MoveToSyncReturn

Spec == Init /\ [][Next]_vars

(***************************************************************************)
(* The polled use of the driver: moveTo() requests and an external loop    *)
(* that calls update() again and again, the clock at least stepDelay later *)
(* at every call.                                                          *)
(***************************************************************************)
PacedUpdate == \E d \in stepDelay..(ClockMod - 1) : Update(d)

PollNext ==
  \/ \E t \in Targets : MoveTo(t)
  \/ PacedUpdate

PollSpec == Init /\ [][PollNext]_vars /\ WF_vars(PacedUpdate)

(***************************************************************************)
(***************************************************************************)
(* The blocking use of the driver: any calls between the moves, and a      *)
(* moveToSync() loop that, once entered, keeps running: delay() returns    *)
(* and the observer returns, so the next iteration or the return is taken. *)
(***************************************************************************)
SyncSpec ==
  Init /\ [][Next]_vars /\ WF_vars(MoveToSyncIterate) /\ WF_vars(MoveToSyncReturn)

(***************************************************************************)
(* The driver used through moveTo() and update() alone, update() called    *)
(* at any clock value.                                                     *)
(***************************************************************************)
MoveUpdateNext ==
  \/ \E t \in Targets : MoveTo(t)
  \/ \E d \in 0..(ClockMod - 1) : Update(d)

MoveUpdateSpec == Init /\ [][MoveUpdateNext]_vars

(* Claims.                                                                 *)
(***************************************************************************)
Settled == ~drv.m_motorActive /\ drv.m_currentStep = drv.m_targetStep

PinsOf(s) == << s.mode, s.level >>

\* C1: with moveTo() and paced update() calls only, once no further moveTo()
\* is issued the position reaches the clamped target of the last request
\* and the motor deactivates for good; an update() on the idle driver
\* writes no pin and moves nothing.
C1_PolledMoveSettles ==
  /\ (<>[][op' # "moveTo"]_vars) => <>[]Settled
  /\ [][op' = "moveTo" =>
          drv'.m_targetStep = constrain(req', drv.m_minStep, drv.m_maxStep)]_vars
  /\ [][op' = "update" => drv'.m_targetStep = drv.m_targetStep]_vars
  /\ [][(op' = "update" /\ ~drv.m_motorActive) =>
          /\ ~drv'.h_wrote
          /\ ~drv'.m_motorActive
          /\ drv'.m_currentStep = drv.m_currentStep
          /\ PinsOf(drv') = PinsOf(drv)]_vars

\* A counter-clockwise polled move has arrived at the lower bound and the
\* update() that found it there has released the motor.
C1_Witness ==
  /\ op = "update" /\ sinceUpdateStep >= 0
  /\ ~drv.m_clockwise /\ Settled
  /\ drv.m_currentStep = drv.m_minStep /\ drv.m_lastPosition = drv.m_minStep

Clamped(t) == constrain(t, drv.m_minStep, drv.m_maxStep)

\* moveToSync() has returned: by its early return or out of its loop.
SyncReturned == op = "moveToSync" /\ pc = "idle"

\* C2: whenever moveToSync(target) returns, from any state of the driver,
\* the position is the clamped target and the motor is inactive.
C2_SyncReturnsIdleAtTarget ==
  SyncReturned => (drv.m_currentStep = Clamped(req) /\ ~drv.m_motorActive)

\* The positions from s (excluded) to c (included), one step apart.
Path(s, c) ==
  [i \in 1..(IF c >= s THEN c - s ELSE s - c) |-> IF c >= s THEN s + i ELSE s - i]

\* C3: during moveToSync() a set observer is invoked exactly once per step,
\* right after it, with the position that step produced, so that its
\* arguments are the positions from the start to the one reached, in order;
\* update() and direct stepMotor() calls do not invoke it.
C3_ObserverOncePerStep ==
  /\ []((op = "moveToSync" /\ m_stepCallback # "nullptr") =>
          /\ cbLog = Path(syncStart, drv.m_currentStep)
          /\ Len(cbLog) = syncSteps)
  /\ []((SyncReturned /\ m_stepCallback # "nullptr"
          /\ drv.m_currentStep = drv.m_targetStep) =>
          cbLog = Path(syncStart, Clamped(req)))
  /\ [][(pc = "sync" /\ pc' = "sync") =>
          /\ drv'.h_steps = 1
          /\ drv'.h_cbCalls = (IF m_stepCallback = "nullptr" THEN 0 ELSE 1)
          /\ drv'.h_cbCalls = 1 => drv'.h_cbArg = drv.m_currentStep + stepDelta(drv.m_clockwise)]_vars
  /\ [][op' \in {"update", "stepMotor"} => drv'.h_cbCalls = 0 /\ cbLog' = << >>]_vars

\* moveToSync() has returned from a move of two steps or more that the
\* observer watched to its end.
C3_Witness ==
  /\ SyncReturned /\ m_stepCallback = "record"
  /\ drv.m_currentStep = drv.m_targetStep
  /\ Len(cbLog) >= 2 /\ cbLog[Len(cbLog)] = drv.m_targetStep

InRange(s) == s.m_minStep <= s.m_targetStep /\ s.m_targetStep <= s.m_maxStep

\* C4: moveTo(t) and moveToSync(t) leave targetStep at t saturated to
\* [minStep, maxStep]; from the first request on targetStep stays within the
\* bounds; no other operation changes targetStep.
C4_TargetClamped ==
  /\ [](op \in {"moveTo", "moveToSync"} =>
          /\ drv.m_targetStep = Clamped(req)
          /\ InRange(drv))
  /\ [][InRange(drv) => InRange(drv')]_vars
  /\ [][op' \notin {"moveTo", "moveToSync"} =>
          drv'.m_targetStep = drv.m_targetStep]_vars

\* A request beyond maxStep on a driver whose initial target 0 lies below
\* minStep has been saturated to maxStep.
C4_Witness ==
  /\ op = "moveTo" /\ req > drv.m_maxStep
  /\ drv.m_targetStep = drv.m_maxStep /\ drv.m_minStep > 0

\* C5: over consecutive stepMotor() calls in one direction the table row
\* advances by one (mod 4) clockwise and goes back by one (mod 4)
\* counter-clockwise.
C5_RowsCycleInDirection ==
  [][(drv.h_steps = 1 /\ drv'.h_steps = 1 /\ drv'.h_rowCw = drv.h_rowCw) =>
       drv'.h_row = (drv.h_row + stepDelta(drv.h_rowCw)) % stepCount]_vars

\* C6: update() steps only when at least stepDelay of clock time has passed
\* since the previous step that update() emitted; an update() less than
\* stepDelay after a stepping update() leaves the position alone.
C6_UpdatePaced ==
  /\ [][(op' = "update" /\ drv'.h_steps > 0 /\ sinceUpdateStep # -1) =>
          sinceUpdateStep + ((now' - now) % ClockMod) >= stepDelay]_vars
  /\ [][(op = "update" /\ drv.h_steps > 0 /\ op' = "update"
          /\ (now' - now) % ClockMod < stepDelay) =>
          drv'.m_currentStep = drv.m_currentStep]_vars

\* update() was polled too early on a moving motor and did not step.
C6_Witness ==
  /\ op = "update" /\ drv.h_steps = 0
  /\ drv.m_motorActive /\ ~targetPassed(drv)
  /\ sinceUpdateStep \in 0..(stepDelay - 1)

\* C7: every stepMotor() call moves the position by exactly one, +1
\* clockwise and -1 counter-clockwise, whether or not the motor is active
\* and whatever the bounds; one update() call makes at most one step.
C7_OneStepPerCall ==
  /\ [][op' # "setCurrentStep" =>
          drv'.m_currentStep =
            drv.m_currentStep + drv'.h_steps * (IF drv.m_clockwise THEN 1 ELSE -1)]_vars
  /\ [][op' \in {"stepMotor", "update"} => drv'.m_clockwise = drv.m_clockwise]_vars
  /\ [][op' = "stepMotor" => drv'.h_steps = 1]_vars
  /\ [][op' = "update" => drv'.h_steps <= 1]_vars

\* A direct stepMotor() call on an idle driver has taken the position past
\* maxStep.
C7_Witness ==
  /\ op = "stepMotor" /\ ~drv.m_motorActive
  /\ drv.m_currentStep > drv.m_maxStep

Rows == { fullSteps[i] : i \in 1..stepCount }

LatestIndex(s) ==
  stepIndex(s.m_clockwise, s.m_currentStep - stepDelta(s.m_clockwise))

C9_IdlePinsReleased == ~drv.m_motorActive => drv.mode = AllMode("INPUT")

\* A direct stepMotor() call on the idle driver has written a row to the
\* pins, which stay inputs.
C9_Witness ==
  /\ op = "stepMotor" /\ ~drv.m_motorActive
  /\ drv.level \in Rows /\ drv.mode = AllMode("INPUT")

\* C10: the index stepMotor() computes is within the table, 0..3, for
\* every position it is called at.
C10_IndexInTable == drv.h_steps > 0 => drv.h_row \in 0..(stepCount - 1)

\* The driver's members and pins, without the record of the latest call.
Members(s) ==
  [f \in {"m_minStep", "m_maxStep", "m_targetStep", "m_currentStep",
          "m_lastStepTime", "m_lastPosition", "m_clockwise",
          "m_motorActive", "mode", "level"} |-> s[f]]

\* C11: deactivateMotor() on an idle driver, called directly or as the last
\* statement of moveToSync(), leaves currentStep, targetStep, clockwise and
\* motorActive unchanged and the pins released, their levels untouched; a
\* second deactivateMotor() right after a first changes nothing at all.
C11_DeactivateIdempotent ==
  /\ [][(~drv.m_motorActive
          /\ (op' = "deactivateMotor" \/ (pc = "sync" /\ pc' = "idle"))) =>
          /\ drv'.m_currentStep = drv.m_currentStep
          /\ drv'.m_targetStep = drv.m_targetStep
          /\ drv'.m_clockwise = drv.m_clockwise
          /\ ~drv'.m_motorActive
          /\ drv'.mode = AllMode("INPUT")
          /\ drv'.level = drv.level /\ ~drv'.h_wrote]_vars
  /\ [][(op = "deactivateMotor" /\ op' = "deactivateMotor") =>
          Members(drv') = Members(drv)]_vars
  /\ [](deactivateMotor(deactivateMotor(drv)) = deactivateMotor(drv))

\* deactivateMotor() was called on a driver that was already idle, away
\* from its target, after a direct stepMotor() call had left a row on the
\* released pins.
C11_Witness ==
  /\ op = "deactivateMotor" /\ ~drv.h_wasActive /\ ~drv.m_motorActive
  /\ drv.m_currentStep # drv.m_targetStep
  /\ drv.level \in Rows /\ drv.mode = AllMode("INPUT")

\* C12: an update() call on an idle driver changes no member and no pin
\* mode or level, and writes no pin, whatever the clock value passed and
\* also when currentStep differs from targetStep; so the same holds for any
\* number of such calls.
C12_IdleUpdateNoEffect ==
  [][(op' = "update" /\ ~drv.m_motorActive) =>
       /\ Members(drv') = Members(drv)
       /\ ~drv'.h_wrote /\ drv'.h_steps = 0]_vars

\* update() was called on an idle driver away from its target, at a clock
\* value stepDelay or more past that of the last step, and with a snapshot
\* that differs from the position.
C12_Witness ==
  /\ op = "update" /\ ~drv.h_wasActive /\ ~drv.m_motorActive
  /\ drv.m_currentStep # drv.m_targetStep
  /\ drv.m_lastPosition # drv.m_currentStep
  /\ elapsedSince(now, drv.m_lastStepTime) >= stepDelay

Dist(a, b) == IF a >= b THEN a - b ELSE b - a

\* C13: moveToSync(target) always returns.  Each loop iteration brings the
\* position one step closer to the clamped target, the position never
\* leaves the stretch from the start to the target, and with an observer
\* that does not call back into the driver the loop has made exactly
\* |clamp(target) - start| steps when it returns.
C13_SyncTerminates ==
  /\ (pc = "sync") ~> (pc = "idle")
  /\ [][(pc = "sync" /\ pc' = "sync") =>
          Dist(drv'.m_targetStep, drv'.m_currentStep) =
            Dist(drv.m_targetStep, drv.m_currentStep) - 1]_vars
  /\ [](op = "moveToSync" =>
          /\ syncSteps = Dist(drv.m_currentStep, syncStart)
          /\ syncSteps + Dist(Clamped(req), drv.m_currentStep) =
               Dist(Clamped(req), syncStart))
  /\ []((SyncReturned /\ m_stepCallback # "cancel") =>
          syncSteps = Dist(Clamped(req), syncStart))

\* moveToSync() has returned from a downward move of two steps or more
\* that started above maxStep and ended at the clamped target.
C13_Witness ==
  /\ SyncReturned /\ m_stepCallback # "cancel"
  /\ syncStart > drv.m_maxStep /\ req < drv.m_minStep
  /\ syncSteps >= 2 /\ drv.m_currentStep = drv.m_minStep

\* C14: the loop of moveToSync() finds the motor inactive only when the
\* observer has called deactivateMotor() in the iteration just made; the
\* loop then makes no further step, pin write or observer call and
\* moveToSync() returns with the motor inactive, at the position the
\* observer was last given.
C14_CancelStopsLoop ==
  /\ []((pc = "sync" /\ ~drv.m_motorActive) =>
          /\ m_stepCallback = "cancel"
          /\ drv.h_cbCalls = 1 /\ drv.h_cbArg = drv.m_currentStep)
  /\ [][(pc = "sync" /\ ~drv.m_motorActive) =>
          /\ pc' = "idle"
          /\ drv'.h_steps = 0 /\ ~drv'.h_wrote /\ drv'.h_cbCalls = 0
          /\ cbLog' = cbLog /\ syncSteps' = syncSteps
          /\ drv'.m_currentStep = drv.m_currentStep
          /\ ~drv'.m_motorActive]_vars
  /\ []((SyncReturned /\ syncSteps > 0 /\ m_stepCallback # "nullptr") =>
          /\ ~drv.m_motorActive
          /\ drv.m_currentStep = cbLog[Len(cbLog)])

\* moveToSync() has returned after the observer cancelled a move of two
\* steps or more at its first step.
C14_Witness ==
  /\ SyncReturned /\ m_stepCallback = "cancel"
  /\ ~drv.m_motorActive /\ ~drv.h_wasActive
  /\ syncSteps = 1 /\ Len(cbLog) = 1
  /\ Dist(drv.m_targetStep, drv.m_currentStep) >= 1
  /\ Dist(drv.m_targetStep, syncStart) >= 2

\* C15: a moveTo(t) or moveToSync(t) call whose clamped target equals the
\* current position assigns targetStep and nothing else: position,
\* direction, activity flag, snapshot, step time, pin modes and pin levels
\* are unchanged, no pin is written, no step made, no observer called, and
\* moveToSync() has returned; an idle driver stays idle.
C15_NoMoveSkipsActivation ==
  [][(pc = "idle" /\ op' \in {"moveTo", "moveToSync"}
       /\ constrain(req', drv.m_minStep, drv.m_maxStep) = drv.m_currentStep) =>
       /\ Members(drv') = [Members(drv) EXCEPT !.m_targetStep = drv.m_currentStep]
       /\ ~drv'.h_wrote /\ drv'.h_steps = 0 /\ drv'.h_cbCalls = 0
       /\ pc' = "idle" /\ cbLog' = << >>]_vars

\* A moveTo() beyond maxStep on a driver that is at maxStep, still active
\* from a move towards another target: the target is now the position and
\* the activation, with its older snapshot, is as it was.
C15_Witness ==
  /\ op = "moveTo" /\ req > drv.m_maxStep
  /\ drv.m_currentStep = drv.m_maxStep /\ drv.m_targetStep = drv.m_maxStep
  /\ drv.h_wasActive /\ drv.m_motorActive /\ ~drv.h_wrote
  /\ drv.m_lastPosition # drv.m_currentStep

\* A moveToSync() to the position of an idle driver, with an observer set,
\* has returned at once.
C15_WitnessSync ==
  /\ SyncReturned /\ m_stepCallback = "record"
  /\ drv.m_currentStep = Clamped(req) /\ syncSteps = 0
  /\ ~drv.h_wasActive /\ ~drv.m_motorActive /\ drv.m_currentStep # 0

\* The call just made has switched the motor on or off: activateMotor()
\* leaves it active with no step made since, deactivateMotor() leaves it
\* inactive.
SwitchedIn(s) == ~s.m_motorActive \/ (s.h_wrote /\ s.h_stepsSinceAct = 0)

C17_ActivateOnlyArms ==
  /\ [][op' = "activateMotor" =>
          /\ drv'.h_steps = 0
          /\ drv'.m_currentStep = drv.m_currentStep
          /\ drv'.m_targetStep = drv.m_targetStep
          /\ drv'.m_clockwise = drv'.h_argDir
          /\ drv'.m_motorActive
          /\ drv'.m_lastPosition = drv.m_currentStep
          /\ drv'.mode = AllMode("OUTPUT") /\ drv'.level = AllLow]_vars
  /\ [][(op' = "moveTo" /\ drv'.m_targetStep # drv.m_currentStep) =>
          /\ drv'.h_steps = 0
          /\ drv'.m_currentStep = drv.m_currentStep
          /\ drv'.m_clockwise = (drv'.m_targetStep > drv.m_currentStep)
          /\ drv'.m_motorActive
          /\ drv'.mode = AllMode("OUTPUT") /\ drv'.level = AllLow]_vars

\* activateMotor(false) was called on a driver that was already active and
\* away from its target: it is armed counter-clockwise at the same
\* position, below the target.
C17_Witness ==
  /\ op = "activateMotor" /\ drv.h_wasActive /\ ~drv.h_argDir
  /\ drv.m_motorActive /\ ~drv.m_clockwise
  /\ drv.m_currentStep < drv.m_targetStep
  /\ drv.m_lastPosition = drv.m_currentStep /\ drv.level = AllLow

\* The direction of the driver points from its position to its target.
Towards(s) ==
  \/ s.m_clockwise /\ s.m_currentStep < s.m_targetStep
  \/ ~s.m_clockwise /\ s.m_currentStep > s.m_targetStep

\* C18: an update() call steps only on an active driver whose direction
\* points from the position to the target, and the step brings the
\* position exactly one closer to the target; on an active driver whose
\* direction points away from the target, or that is at the target,
\* update() makes no step and deactivates the motor where it is.
C18_UpdateStepsTowardsTarget ==
  /\ [][(op' = "update" /\ drv'.h_steps > 0) =>
          /\ drv.m_motorActive /\ Towards(drv)
          /\ Dist(drv'.m_targetStep, drv'.m_currentStep) =
               Dist(drv.m_targetStep, drv.m_currentStep) - 1]_vars
  /\ [][(op' = "update" /\ drv.m_motorActive /\ ~Towards(drv)) =>
          /\ drv'.h_steps = 0 /\ ~drv'.h_wrote
          /\ drv'.m_currentStep = drv.m_currentStep
          /\ ~drv'.m_motorActive]_vars

\* update() found the motor armed clockwise with the target below the
\* position and has deactivated it there, without a step.
C18_Witness ==
  /\ op = "update" /\ drv.h_wasActive /\ ~drv.m_motorActive
  /\ drv.h_steps = 0 /\ drv.m_clockwise
  /\ drv.m_currentStep > drv.m_targetStep
  /\ drv.m_lastPosition = drv.m_currentStep

PosInBounds(s) == s.m_minStep <= s.m_currentStep /\ s.m_currentStep <= s.m_maxStep

\* C19: from any state of the driver whose position is within
\* [minStep, maxStep], a call of moveTo(), update(), activateMotor(),
\* deactivateMotor() or moveToSync(), the observer not calling back into
\* the driver, leaves the position within the bounds; only stepMotor() and
\* setCurrentStep() calls take it outside.
C19_PositionStaysInBounds ==
  [][(PosInBounds(drv) /\ m_stepCallback # "cancel"
       /\ op' \notin {"stepMotor", "setCurrentStep"}) =>
       PosInBounds(drv')]_vars

\* C20: in runs of moveTo() and update() calls alone, whenever the motor is
\* active and currentStep differs from targetStep, clockwise is true
\* exactly when targetStep > currentStep; and update() deactivates the
\* motor only at the target.
C20_DirectionAgreesWithTarget ==
  /\ []((drv.m_motorActive /\ drv.m_currentStep # drv.m_targetStep) =>
          (drv.m_clockwise <=> drv.m_targetStep > drv.m_currentStep))
  /\ [][(op' = "update" /\ drv.m_motorActive /\ ~drv'.m_motorActive) =>
          /\ drv.m_currentStep = drv.m_targetStep
          /\ drv'.m_currentStep = drv'.m_targetStep]_vars

\* A polled move has been redirected downwards by a second moveTo() and
\* update() has made a counter-clockwise step of it, not yet the last.
C20_Witness ==
  /\ op = "update" /\ drv.h_steps = 1
  /\ drv.m_motorActive /\ ~drv.m_clockwise
  /\ drv.m_currentStep > drv.m_targetStep
  /\ drv.m_lastPosition > 0 /\ drv.m_lastPosition > drv.m_currentStep

====
